---------------------------- MODULE Spec2Model ----------------------------
(***************************************************************************)
(* A model of the Telegram webhook handler of src/api/handler.go.  The    *)
(* file holds two variants of the handler: variant 1 is lines 1-200,      *)
(* variant 2 is lines 202-362.  One request is followed from the decoding *)
(* of its payload to the return (or panic) of Handler.                    *)
(*                                                                         *)
(* A Go string is a sequence of one-character strings.  A string literal  *)
(* that the code never inspects character by character (the greeting, the *)
(* search endpoint) is a sequence of one element holding the literal.     *)
(***************************************************************************)
EXTENDS Integers, Sequences, FiniteSets

VARIABLES
    variant,       \* which of the two handler variants serves the request
    payload,       \* the inbound request body
    pc,            \* position of the request in Handler and its callees
    update,        \* *Update returned by parseIncomingRequest, or Nil
    err,           \* error returned by parseIncomingRequest
    incomingText,  \* second argument of sendToClient
    keywords,      \* []string handed to getMovies (a nil slice is <<>>)
    URL,           \* local URL of getMovies
    i,             \* loop index of getMovies (1-based here, 0-based in Go)
    html,          \* matching heading elements of the scrape response
    k,             \* number of OnHTML callbacks that have run
    visitErr,      \* error returned by c.Visit (the code drops it)
    movies,        \* local movies of getMovies
    replyText,     \* the text field of the next reply POST
    posts,         \* reply POSTs issued so far, with their outcome
    fetches,       \* scrape fetches issued so far
    logs,          \* log.Printf calls so far
    panic,         \* the run-time panic that ended the handler, if any
    status         \* status the caller receives: 0 until Handler returns

vars == <<variant, payload, pc, update, err, incomingText, keywords, URL, i,
          html, k, visitErr, movies, replyText, posts, fetches, logs, panic,
          status>>

-----------------------------------------------------------------------------
(* Bounds of the model *)

MaxLen == 3
MaxKwLen == 3
MaxKeywords == 3
MaxMatches == 2
MaxChildren == 2

SeqsUpTo(S, n) == UNION {[1..m -> S] : m \in 0..n}

-----------------------------------------------------------------------------
(* Values *)

\* A pointer or an optional JSON field is a sequence of at most one element.
Nil == <<>>
NoErr == "nil error"
NoPanic == "no panic"

IMDB_URL == <<"https://www.imdb.com/search/keyword/?keywords=">>

Separator == <<"%", "2", "C">>

StartSlashText == <<"Hey dude!\nGive me some keywords (comma delimited) to recommend you movies :D">>

StartPlainText == <<"Hey dude!\nGive me some keywords (comma delimited) to recommend you movies :D">>

StartTextV2 == <<"Hey dude!\nGive me some keywords (comma delimited) to recommend you movies :D">>

SlashStart == <<"/", "s", "t", "a", "r", "t">>

PlainStart == <<"s", "t", "a", "r", "t">>

-----------------------------------------------------------------------------
(* The strings package, as far as the handler uses it *)

ToLowerChar(c) ==
    CASE c = "A" -> "a"
      [] c = "R" -> "r"
      [] c = "S" -> "s"
      [] c = "T" -> "t"
      [] OTHER -> c

ToLower(s) == [j \in 1..Len(s) |-> ToLowerChar(s[j])]

HasPrefix(s, p) == Len(s) >= Len(p) /\ SubSeq(s, 1, Len(p)) = p

RECURSIVE ReplaceFirst(_, _, _)
ReplaceFirst(s, old, new) ==
    IF Len(s) < Len(old) \/ s = <<>> THEN s
    ELSE IF HasPrefix(s, old)
         THEN new \o SubSeq(s, Len(old) + 1, Len(s))
         ELSE <<Head(s)>> \o ReplaceFirst(Tail(s), old, new)

RECURSIVE ReplaceAll(_, _, _)
ReplaceAll(s, old, new) ==
    IF Len(s) < Len(old) \/ s = <<>> THEN s
    ELSE IF HasPrefix(s, old)
         THEN new \o ReplaceAll(SubSeq(s, Len(old) + 1, Len(s)), old, new)
         ELSE <<Head(s)>> \o ReplaceAll(Tail(s), old, new)

RECURSIVE SplitFrom(_, _, _)
SplitFrom(s, sep, piece) ==
    IF s = <<>> THEN <<piece>>
    ELSE IF HasPrefix(s, sep)
         THEN <<piece>> \o SplitFrom(SubSeq(s, Len(sep) + 1, Len(s)), sep, <<>>)
         ELSE SplitFrom(Tail(s), sep, Append(piece, Head(s)))

NonEmpty(piece) == piece # <<>>

SplitDropEmpty(s, sep) == SelectSeq(SplitFrom(s, sep, <<>>), NonEmpty)

Split(s, sep) == SplitFrom(s, sep, <<>>)

IsSpace(c) == c \in {" ", "\t", "\n", "\r"}

RECURSIVE TrimLeft(_)
TrimLeft(s) == IF s # <<>> /\ IsSpace(Head(s)) THEN TrimLeft(Tail(s)) ELSE s

RECURSIVE TrimRight(_)
TrimRight(s) ==
    IF s # <<>> /\ IsSpace(s[Len(s)]) THEN TrimRight(SubSeq(s, 1, Len(s) - 1))
    ELSE s

TrimSpace(s) == TrimRight(TrimLeft(s))

-----------------------------------------------------------------------------
(* Inbound payloads *)

CommandTexts ==
    { SlashStart, <<"/", "S", "T", "A", "R", "T">>, PlainStart,
      <<"S", "t", "a", "r", "t">> }

FreeChars == {"A", ",", " "}

Texts == CommandTexts \cup SeqsUpTo(FreeChars, MaxLen)

Malformed ==
    [wellFormed |-> FALSE, update_id |-> Nil, chat_id |-> Nil, text |-> <<>>,
     audio |-> Nil]

Payloads ==
    {Malformed} \cup
    [wellFormed : {TRUE}, update_id : {Nil, <<0>>, <<5>>},
     chat_id : {Nil, <<7>>}, text : Texts, audio : {Nil, <<"f1">>}]

\* json.Decoder.Decode into a zero-valued Update: an absent field keeps its
\* zero value.
IntOrZero(f) == IF f = Nil THEN 0 ELSE f[1]

Decode(p) ==
    [UpdateID |-> IntOrZero(p.update_id),
     Message |-> [Text |-> p.text,
                  Chat |-> [ID |-> IntOrZero(p.chat_id)],
                  Audio |-> [FileID |-> IF p.audio = Nil THEN <<>> ELSE p.audio]]]

parseSkipIdCheck(p) ==
    IF ~p.wellFormed
    THEN [update |-> Nil, err |-> "DecodeError",
          logs |-> <<"could not decode incoming update">>]
    ELSE [update |-> <<Decode(p)>>, err |-> NoErr, logs |-> <<>>]

parseIncomingRequest(p) ==
    IF ~p.wellFormed
    THEN [update |-> Nil, err |-> "DecodeError",
          logs |-> <<"could not decode incoming update">>]
    ELSE IF Decode(p).UpdateID = 0
         THEN [update |-> Nil, err |-> "InvalidIdentifier",
               logs |-> <<"invalid update id, got update id = 0">>]
         ELSE [update |-> <<Decode(p)>>, err |-> NoErr, logs |-> <<>>]

\* The same function in variant 2.
parseIncomingRequestV2(p) ==
    IF ~p.wellFormed
    THEN [update |-> Nil, err |-> "DecodeError",
          logs |-> <<"could not decode incoming update">>]
    ELSE IF Decode(p).UpdateID = 0
         THEN [update |-> Nil, err |-> "InvalidIdentifier",
               logs |-> <<"invalid update id, got update id = 0">>]
         ELSE [update |-> <<Decode(p)>>, err |-> NoErr, logs |-> <<>>]

AfterParseNoReturn(e) == "dispatching"

\* Handler's test of the error of parseIncomingRequest: where it goes next.
AfterParse(e) == IF e # NoErr THEN "done" ELSE "dispatching"

getKeywords(text) == Split(ReplaceAll(text, <<" ">>, <<>>), <<",">>)

\* Variant 2 extracts the keywords inline in sendToClient.
inlineKeywords(text) == Split(ReplaceAll(text, <<" ">>, <<>>), <<",">>)

-----------------------------------------------------------------------------
(* Scrape responses: the elements matching h3[class="lister-item-header"]  *)
(* in document order, each the sequence of the texts of its child elements *)

ChildTexts == { <<" ", "M">>, <<"1", "\n">> }

\* A heading whose first child element bears no text.
EmptyFirstChild == << <<>>, <<" ", "M">> >>

Headings == SeqsUpTo(ChildTexts, MaxChildren) \cup {EmptyFirstChild}

Pages == SeqsUpTo(Headings, MaxMatches)

SamplePages ==
    { <<>>,
      << << <<"M">> >> >>,
      << << <<"1", "\n">>, <<" ", "M">> >>, EmptyFirstChild >> }

RECURSIVE Concat(_)
Concat(ss) == IF ss = <<>> THEN <<>> ELSE Head(ss) \o Concat(Tail(ss))

\* element.DOM.Children().Text(): the combined text of all child elements.
ChildrenText(h) == Concat(h)

TitleUntrimmed(h) == ChildrenText(h) \o <<"\n">>

\* What one OnHTML callback appends to movies.
Title(h) == TrimSpace(ChildrenText(h)) \o <<"\n">>

-----------------------------------------------------------------------------
(* The request *)

Init ==
    /\ variant \in {1, 2}
    /\ payload \in Payloads
    /\ pc = "decoding"
    /\ update = Nil
    /\ err = NoErr
    /\ incomingText = <<>>
    /\ keywords = <<>>
    /\ URL = <<>>
    /\ i = 0
    /\ html = <<>>
    /\ k = 0
    /\ visitErr = NoErr
    /\ movies = <<>>
    /\ replyText = <<>>
    /\ posts = <<>>
    /\ fetches = <<>>
    /\ logs = <<>>
    /\ panic = NoPanic
    /\ status = 0

\* Handler, up to its test of the decoding error.
ParseRequest ==
    /\ pc = "decoding"
    /\ LET r == IF variant = 1 THEN parseIncomingRequest(payload)
                                ELSE parseIncomingRequestV2(payload) IN
       /\ update' = r.update
       /\ err' = r.err
       /\ pc' = AfterParse(r.err)
       /\ logs' = IF AfterParse(r.err) = "done"
                  THEN logs \o r.logs \o <<"error parsing incoming update">>
                  ELSE logs \o r.logs
       /\ status' = IF AfterParse(r.err) = "done" THEN 200 ELSE 0
    /\ UNCHANGED <<variant, payload, incomingText, keywords, URL, i, html, k,
                   visitErr, movies, replyText, posts, fetches, panic>>

ChatID == update[1].Message.Chat.ID

\* Handler's call of sendToClient and the branch sendToClient takes, variant 1.
\* (update is never nil here: Handler has returned on every error.)
DispatchV1 ==
    /\ pc = "dispatching"
    /\ variant = 1
    /\ IF update = Nil
       THEN /\ panic' = "nil pointer dereference"
            /\ pc' = "panicked"
            /\ UNCHANGED <<incomingText, replyText, keywords>>
       ELSE LET text == ToLower(update[1].Message.Text) IN
            /\ incomingText' = text
            /\ panic' = panic
            /\ IF text = SlashStart
               THEN /\ replyText' = StartSlashText
                    /\ pc' = "post_start"
                    /\ UNCHANGED keywords
               ELSE IF text = PlainStart
               THEN /\ replyText' = StartPlainText
                    /\ pc' = "post"
                    /\ UNCHANGED keywords
               ELSE /\ keywords' = getKeywords(text)
                    /\ pc' = "getMovies"
                    /\ UNCHANGED replyText
    /\ UNCHANGED <<variant, payload, update, err, URL, i, html, k, visitErr,
                   movies, posts, fetches, logs, status>>

\* The same for variant 2, whose switch knows "/start" only.
DispatchV2 ==
    /\ pc = "dispatching"
    /\ variant = 2
    /\ IF update = Nil
       THEN /\ panic' = "nil pointer dereference"
            /\ pc' = "panicked"
            /\ UNCHANGED <<incomingText, replyText, keywords>>
       ELSE LET text == ToLower(update[1].Message.Text) IN
            /\ incomingText' = text
            /\ panic' = panic
            /\ IF text = SlashStart
               THEN /\ replyText' = StartTextV2
                    /\ pc' = "post_greeting"
                    /\ UNCHANGED keywords
               ELSE /\ keywords' = inlineKeywords(text)
                    /\ pc' = "getMovies"
                    /\ UNCHANGED replyText
    /\ UNCHANGED <<variant, payload, update, err, URL, i, html, k, visitErr,
                   movies, posts, fetches, logs, status>>

\* URL := IMDB_URL + keywords[0]
FirstURL(kws) == IMDB_URL \o kws[1]

AppendKeywordComma(url, kw) == url \o <<",">> \o kw

\* URL += "%2C" + keywords[i]
AppendKeyword(url, kw) == url \o Separator \o kw

\* getMovies: the first statement, which indexes keywords[0].
GetMoviesStart ==
    /\ pc = "getMovies"
    /\ IF keywords = <<>>
       THEN /\ panic' = "index out of range"
            /\ pc' = "panicked"
            /\ UNCHANGED <<URL, i>>
       ELSE /\ URL' = FirstURL(keywords)
            /\ i' = 2
            /\ pc' = "url_loop"
            /\ UNCHANGED panic
    /\ UNCHANGED <<variant, payload, update, err, incomingText, keywords, html,
                   k, visitErr, movies, replyText, posts, fetches, logs, status>>

\* getMovies: one iteration of the loop over keywords[1:].
UrlLoop ==
    /\ pc = "url_loop"
    /\ i <= Len(keywords)
    /\ URL' = AppendKeyword(URL, keywords[i])
    /\ i' = i + 1
    /\ UNCHANGED <<variant, payload, pc, update, err, incomingText, keywords,
                   html, k, visitErr, movies, replyText, posts, fetches, logs,
                   panic, status>>

\* getMovies: the loop ends; the collector and the empty movies are set up.
UrlLoopExit ==
    /\ pc = "url_loop"
    /\ i > Len(keywords)
    /\ movies' = <<>>
    /\ pc' = "visit"
    /\ UNCHANGED <<variant, payload, update, err, incomingText, keywords, URL, i,
                   html, k, visitErr, replyText, posts, fetches, logs, panic,
                   status>>

\* c.Visit(URL): the fetch fails, or the response holds some matching headings.
VisitFrom(pages) ==
    /\ pc = "visit"
    /\ fetches' = Append(fetches, URL)
    /\ k' = 0
    /\ pc' = "scraping"
    /\ \/ /\ visitErr' = "NetworkError"
          /\ html' = <<>>
       \/ /\ visitErr' = NoErr
          /\ html' \in pages
    /\ UNCHANGED <<variant, payload, update, err, incomingText, keywords, URL, i,
                   movies, replyText, posts, logs, panic, status>>

VisitSample == VisitFrom(SamplePages)

VisitAny == VisitFrom(Pages)

\* The body of the OnHTML callback: movies += TrimSpace(...) + "\n"
MoviesAppend(m, h) == m \o Title(h)

\* The OnHTML callback runs for the next matching element, in document order.
OnHTML ==
    /\ pc = "scraping"
    /\ k < Len(html)
    /\ movies' = MoviesAppend(movies, html[k + 1])
    /\ k' = k + 1
    /\ UNCHANGED <<variant, payload, pc, update, err, incomingText, keywords,
                   URL, i, html, visitErr, replyText, posts, fetches, logs,
                   panic, status>>

\* getMovies returns movies, which becomes the text of the reply.
GetMoviesReturn ==
    /\ pc = "scraping"
    /\ k = Len(html)
    /\ replyText' = movies
    /\ pc' = "post"
    /\ UNCHANGED <<variant, payload, update, err, incomingText, keywords, URL, i,
                   html, k, visitErr, movies, posts, fetches, logs, panic,
                   status>>

\* What sendToClient of variant 1 logs for the outcome of its POST, followed
\* by what Handler logs for the result of sendToClient.
PostLogsV1(outcome) ==
    CASE outcome = "neterr" ->
           <<"error when posting text to the chat", "got error from telegram">>
      [] outcome = "readerr" ->
           <<"error in parsing telegram response", "got error from telegram">>
      [] OTHER ->
           <<"body of the telegram response", "successfully distributed">>

Post(outcome) == [chat_id |-> ChatID, text |-> replyText, result |-> outcome]

\* Variant 1, text "/start": the POST of the first branch, then Handler returns.
PostStartV1 ==
    /\ pc = "post_start"
    /\ variant = 1
    /\ \E outcome \in {"ok", "neterr", "readerr"} :
          /\ posts' = Append(posts, Post(outcome))
          /\ logs' = logs \o PostLogsV1(outcome)
    /\ pc' = "done"
    /\ status' = 200
    /\ UNCHANGED <<variant, payload, update, err, incomingText, keywords, URL, i,
                   html, k, visitErr, movies, replyText, fetches, panic>>

\* Variant 1, any other text: the POST after the switch, then Handler returns.
PostReplyV1 ==
    /\ pc = "post"
    /\ variant = 1
    /\ \E outcome \in {"ok", "neterr", "readerr"} :
          /\ posts' = Append(posts, Post(outcome))
          /\ logs' = logs \o PostLogsV1(outcome)
    /\ pc' = "done"
    /\ status' = 200
    /\ UNCHANGED <<variant, payload, update, err, incomingText, keywords, URL, i,
                   html, k, visitErr, movies, replyText, fetches, panic>>

\* Variant 2, text "/start": the POST inside the switch.  Its error is dropped
\* and `defer response.Body.Close()` dereferences the nil response.  Control
\* then leaves the switch with movies still empty.
PostGreetingV2 ==
    /\ pc = "post_greeting"
    /\ variant = 2
    /\ \E outcome \in {"ok", "neterr"} :
          /\ posts' = Append(posts, Post(outcome))
          /\ IF outcome = "neterr"
             THEN /\ panic' = "nil pointer dereference"
                  /\ pc' = "panicked"
                  /\ UNCHANGED replyText
             ELSE /\ replyText' = movies
                  /\ pc' = "post"
                  /\ UNCHANGED panic
    /\ UNCHANGED <<variant, payload, update, err, incomingText, keywords, URL, i,
                   html, k, visitErr, movies, fetches, logs, status>>

\* Variant 2: the POST after the switch, with movies as its text.  Its error is
\* dropped and `response.Body.Close()` dereferences the nil response.
PostReplyV2 ==
    /\ pc = "post"
    /\ variant = 2
    /\ \E outcome \in {"ok", "neterr"} :
          /\ posts' = Append(posts, Post(outcome))
          /\ IF outcome = "neterr"
             THEN /\ panic' = "nil pointer dereference"
                  /\ pc' = "panicked"
                  /\ UNCHANGED <<movies, status>>
             ELSE /\ movies' = <<>>
                  /\ pc' = "done"
                  /\ status' = 200
                  /\ UNCHANGED panic
    /\ UNCHANGED <<variant, payload, update, err, incomingText, keywords, URL, i,
                   html, k, visitErr, replyText, fetches, logs>>

Next ==
    \/ ParseRequest
    \/ DispatchV1
    \/ DispatchV2
    \/ GetMoviesStart
    \/ UrlLoop
    \/ UrlLoopExit
    \/ VisitSample
    \/ OnHTML
    \/ GetMoviesReturn
    \/ PostStartV1
    \/ PostReplyV1
    \/ PostGreetingV2
    \/ PostReplyV2

Spec == Init /\ [][Next]_vars

-----------------------------------------------------------------------------
(* Keyword extraction on its own: every text over KwChars *)

KwChars == {"a", ",", " ", "\t"}

KwTexts == SeqsUpTo(KwChars, MaxKwLen)

Idle ==
    /\ payload = Malformed
    /\ update = Nil
    /\ err = NoErr
    /\ visitErr = NoErr
    /\ replyText = <<>>
    /\ posts = <<>>
    /\ fetches = <<>>
    /\ logs = <<>>
    /\ panic = NoPanic
    /\ status = 0

InitKeywords ==
    /\ Idle
    /\ variant \in {1, 2}
    /\ pc = "extract"
    /\ incomingText \in KwTexts
    /\ keywords = <<>>
    /\ URL = <<>>
    /\ i = 0
    /\ html = <<>>
    /\ k = 0
    /\ movies = <<>>

\* getKeywords(incomingText) in variant 1, the inline extraction in variant 2.
ExtractKeywords ==
    /\ pc = "extract"
    /\ keywords' = IF variant = 1 THEN getKeywords(incomingText)
                                  ELSE inlineKeywords(incomingText)
    /\ pc' = "extracted"
    /\ UNCHANGED <<variant, payload, update, err, incomingText, URL, i, html, k,
                   visitErr, movies, replyText, posts, fetches, logs, panic,
                   status>>

SpecKeywords == InitKeywords /\ [][ExtractKeywords]_vars

-----------------------------------------------------------------------------
(* The query URL of getMovies on its own: every keyword list over KeywordSet *)

KeywordSet == { <<>>, <<"x">>, <<"y">>, <<"&", "x">> }

KeywordLists == SeqsUpTo(KeywordSet, MaxKeywords)

InitURL ==
    /\ Idle
    /\ variant \in {1, 2}
    /\ pc = "getMovies"
    /\ incomingText = <<>>
    /\ keywords \in KeywordLists
    /\ URL = <<>>
    /\ i = 0
    /\ html = <<>>
    /\ k = 0
    /\ movies = <<>>

NextURL ==
    \/ GetMoviesStart
    \/ UrlLoop
    \/ UrlLoopExit

SpecURL == InitURL /\ [][NextURL]_vars

-----------------------------------------------------------------------------
(* The scrape of getMovies on its own: every response in Pages *)

InitScrape ==
    /\ Idle
    /\ variant \in {1, 2}
    /\ pc = "visit"
    /\ incomingText = <<>>
    /\ keywords = << <<"x">> >>
    /\ URL = FirstURL(<< <<"x">> >>)
    /\ i = 2
    /\ html = <<>>
    /\ k = 0
    /\ movies = <<>>

NextScrape ==
    \/ VisitAny
    \/ OnHTML
    \/ GetMoviesReturn

SpecScrape == InitScrape /\ [][NextScrape]_vars

-----------------------------------------------------------------------------
(* Vocabulary of the claims *)

Whitespace == {" ", "\t", "\n", "\r"}

ZeroOrAbsentId == payload.update_id \in {Nil, <<0>>}

CommaCount(s) == Cardinality({j \in 1..Len(s) : s[j] = ","})

NotSpaceChar(c) == c # " "

NotWhitespace(c) == c \notin Whitespace

RECURSIVE JoinWith(_, _)
JoinWith(ss, sep) ==
    IF Len(ss) = 0 THEN <<>>
    ELSE IF Len(ss) = 1 THEN ss[1]
    ELSE JoinWith(SubSeq(ss, 1, Len(ss) - 1), sep) \o sep \o ss[Len(ss)]

\* t is s without its leading and trailing whitespace.
IsTrimOf(t, s) ==
    \E a, b \in 0..Len(s) :
        /\ a + b <= Len(s)
        /\ t = SubSeq(s, a + 1, Len(s) - b)
        /\ \A j \in 1..a : s[j] \in Whitespace
        /\ \A j \in (Len(s) - b + 1)..Len(s) : s[j] \in Whitespace
        /\ t # <<>> => (t[1] \notin Whitespace /\ t[Len(t)] \notin Whitespace)

Trimmed(s) ==
    CHOOSE t \in {SubSeq(s, a, b) : a \in 1..(Len(s) + 1), b \in 0..Len(s)} :
        IsTrimOf(t, s)

\* The text of the first child element that bears any text.
FirstTextBearing(h) ==
    IF \A j \in 1..Len(h) : h[j] = <<>> THEN <<>>
    ELSE h[CHOOSE j \in 1..Len(h) :
               h[j] # <<>> /\ \A m \in 1..(j - 1) : h[m] = <<>>]

Extracted(text) ==
    IF variant = 1 THEN getKeywords(text) ELSE inlineKeywords(text)

Greeting == <<"Hey dude!\nGive me some keywords (comma delimited) to recommend you movies :D">>

-----------------------------------------------------------------------------
(* The claims *)

\* C1: a well-formed payload whose update_id is 0 or absent is rejected with
\* the invalid-identifier error and no Update, whatever its text, chat id and
\* media fields, in both variants.
C1_ZeroIdRejected ==
    (payload.wellFormed /\ ZeroOrAbsentId /\ pc # "decoding")
        => (err = "InvalidIdentifier" /\ update = Nil)

C1_Witness ==
    /\ pc = "done"
    /\ variant = 1
    /\ payload.wellFormed
    /\ payload.update_id = <<0>>
    /\ payload.text = SlashStart
    /\ payload.chat_id = <<7>>
    /\ payload.audio # Nil
    /\ err = "InvalidIdentifier"

\* C2: when decoding fails (malformed payload, or update id 0) Handler makes
\* no outbound call, neither the scrape fetch nor the reply POST, and returns
\* normally with the default success status.
C2_DecodeFailureSendsNothing ==
    (~payload.wellFormed \/ ZeroOrAbsentId)
        => /\ posts = <<>>
           /\ fetches = <<>>
           /\ panic = NoPanic
           /\ pc \in {"decoding", "done"}
           /\ pc = "done" => status = 200

C2_Witness ==
    /\ pc = "done"
    /\ ~payload.wellFormed
    /\ err = "DecodeError"
    /\ posts = <<>>
    /\ status = 200

\* C3: for every decoded request whose text is "/start" or "start" in any
\* letter case, every reply sent is the fixed greeting, no movie lookup is
\* performed, and both commands produce the same reply.
C3_StartRepliesGreeting ==
    (pc = "done" /\ update # Nil
        /\ ToLower(payload.text) \in {SlashStart, PlainStart})
        => /\ fetches = <<>>
           /\ posts # <<>>
           /\ \A j \in 1..Len(posts) : posts[j].text = Greeting

\* C4 (as stated): texts that differ only in whitespace (spaces, tabs,
\* newlines) yield the same keyword list, and no keyword contains a
\* whitespace character.
C4_WhitespaceInsensitive ==
    pc = "extracted"
        => /\ \A j \in 1..Len(keywords) : \A m \in 1..Len(keywords[j]) :
                  keywords[j][m] \notin Whitespace
           /\ \A t \in KwTexts :
                  SelectSeq(t, NotWhitespace)
                      = SelectSeq(incomingText, NotWhitespace)
                  => Extracted(t) = keywords

\* C4 (amended): texts that differ only in space characters yield the same
\* keyword list, no keyword contains a space or a comma, and the keywords
\* joined by commas are the text without its spaces.
C4_SpaceInsensitive ==
    pc = "extracted"
        => /\ \A j \in 1..Len(keywords) : \A m \in 1..Len(keywords[j]) :
                  keywords[j][m] \notin {" ", ","}
           /\ JoinWith(keywords, <<",">>) = SelectSeq(incomingText, NotSpaceChar)
           /\ \A t \in KwTexts :
                  SelectSeq(t, NotSpaceChar)
                      = SelectSeq(incomingText, NotSpaceChar)
                  => Extracted(t) = keywords

C4_Witness ==
    /\ pc = "extracted"
    /\ incomingText = <<"a", ",", " ">>
    /\ keywords = << <<"a">>, <<>> >>

\* C5: for every non-empty keyword list the query URL is the base search
\* endpoint followed by the keywords in their order joined by the literal
\* %2C, with no leading or trailing separator and no escaping.
C5_QueryURL ==
    (pc = "visit" /\ keywords # <<>>)
        => /\ URL = IMDB_URL \o JoinWith(keywords, <<"%", "2", "C">>)
           /\ keywords = << <<"x">>, <<"y">> >>
                  => URL = IMDB_URL \o <<"x", "%", "2", "C", "y">>

C5_Witness ==
    /\ pc = "visit"
    /\ keywords = << <<"&", "x">>, <<>>, <<"y">> >>
    /\ URL = IMDB_URL \o <<"&", "x", "%", "2", "C", "%", "2", "C", "y">>

\* C6 (as stated): the title list is, for each match in document order, the
\* trimmed text of the element's first text-bearing child followed by a
\* newline.
C6_FirstChildTitles ==
    pc = "post"
        => movies = Concat([j \in 1..Len(html) |->
                               Trimmed(FirstTextBearing(html[j])) \o <<"\n">>])

\* C6 (amended): the title list is, for each match in document order, the
\* trimmed concatenation of the texts of all of the element's child elements
\* followed by a newline; zero matches, or a failed fetch, give the empty
\* string.
C6_AllChildrenTitles ==
    pc \in {"scraping", "post"}
        => /\ movies = Concat([j \in 1..k |->
                                  Trimmed(Concat(html[j])) \o <<"\n">>])
           /\ pc = "post" => k = Len(html)
           /\ visitErr # NoErr => movies = <<>>

C6_Witness ==
    /\ pc = "post"
    /\ html = << << <<"1", "\n">>, <<" ", "M">> >>, << <<" ", "M">> >> >>
    /\ movies = <<"1", "\n", " ", "M", "\n", "M", "\n">>

\* C7: when the scrape fetch fails, the handler still dispatches a reply
\* whose text is the empty string, and no panic escapes the handler.
C7_ScrapeFailureRepliesEmpty ==
    visitErr # NoErr
        => /\ panic = NoPanic
           /\ pc = "done" => (Len(posts) = 1 /\ posts[1].text = <<>>)

\* C8: when the reply POST fails with a network error, the handler logs the
\* failure, makes no further outbound attempt and does not crash, in every
\* branch of both variants.
C8_FailedPostEndsNormally ==
    \A j \in 1..Len(posts) :
        posts[j].result = "neterr"
            => /\ j = Len(posts)
               /\ panic = NoPanic
               /\ \E m \in 1..Len(logs) :
                      logs[m] = "error when posting text to the chat"

\* C9: every successfully decoded request issues exactly one reply POST
\* before the handler finishes, never zero and never two.
C9_ExactlyOnePost ==
    (pc = "done" /\ update # Nil) => Len(posts) = 1

\* C10: keyword extraction returns comma count + 1 >= 1 keywords for every
\* text, the empty, all-comma and all-space ones included, so getMovies never
\* indexes the first element of an empty list.
C10_KeywordsNeverEmpty ==
    /\ panic # "index out of range"
    /\ pc \in {"getMovies", "url_loop", "visit", "scraping"}
           => /\ Len(keywords) = CommaCount(incomingText) + 1
              /\ Len(keywords) >= 1

C10_Witness ==
    /\ pc = "url_loop"
    /\ payload.text = <<",", " ", ",">>
    /\ keywords = << <<>>, <<>>, <<>> >>

=============================================================================
